---- MODULE Spec2Model ----
(***************************************************************************)
(* Data-center BAS simulation core: the PID temperature controller         *)
(* (control/pid.py), the CRAC unit state machine (sim/crac.py), the         *)
(* lead/lag/standby staging sequencer (control/sequences.py), the room      *)
(* (sim/environment.py), the BACnet priority array (interfaces/bacnet.py)   *)
(* and the loops that run them together (main.py, tools/run_scenario.py).   *)
(*                                                                         *)
(* Numbers.  The program computes in floating point; the model computes    *)
(* in integers on a fixed grid, and a quotient that does not fall on the    *)
(* grid is rounded down (\div):                                             *)
(*   - PID quantities (error, integral, terms, output) are stored in       *)
(*     units of 1/PidScale, so that the one division by dt and the one     *)
(*     division by ki of update() are exact for the dt and ki values the   *)
(*     model draws;                                                        *)
(*   - temperatures are in tenths of a degree (TempScale);                 *)
(*   - powers of the room are in watts (PowerScale);                       *)
(*   - every duration is in seconds: a quantity the program keeps in hours *)
(*     (dt / 3600.0) is kept as the same duration in seconds.              *)
(***************************************************************************)
EXTENDS Integers, Sequences, FiniteSets, TLC

VARIABLES
    op,         \* the operation that produced the current state
    ki,         \* PIDConfig.ki of the controller under check
    pid,        \* PIDController's mutable fields
    pid_out,    \* <<v>>: the last update() returned v; <<>>: no call since reset
    cfg,        \* StagingConfig fields that vary between the plants checked
    units,      \* CRACUnit fields, by position in CRACSequencer.assignments
    asg,        \* CRACAssignment fields (role and timers), by the same position
    seq,        \* CRACSequencer's own fields
    cmds,       \* external commands issued so far (failures, repairs, rotations)
    obs,        \* history of the error and of lag_staged (see ObsUpdate)
    unit,       \* CRACUnit fields of a unit driven on its own
    uobs,       \* history of that unit (see UnitObs)
    room,       \* Room fields
    windup,     \* the saturation experiment on the controller (see Saturate)
    bac,        \* BACnetShim fields
    sim         \* the simulation loop's own state (see Tick)

pidVars == <<ki, pid, pid_out>>
seqVars == <<cfg, units, asg, seq, cmds, obs>>
unitVars == <<unit, uobs>>
roomVars == <<room>>
extVars == <<windup, bac, sim>>
vars == <<op, pidVars, seqVars, unitVars, roomVars, extVars>>

Abs(x) == IF x < 0 THEN -x ELSE x
Max(a, b) == IF a >= b THEN a ELSE b
Min(a, b) == IF a <= b THEN a ELSE b

(***************************************************************************)
(* control/pid.py                                                          *)
(***************************************************************************)
TempScale == 10
PidScale == 20

\* PIDConfig of the controller under check (gains on the model's grid).
kp == 2
kd == 1
output_min == 0
output_max == 100
rate_limit == 10
integral_windup_limit == 50
KiZeroIntegralLimit == 1000
KiSet == {0, 1}

\* Inputs of update(): setpoints and measurements in tenths of a degree,
\* dt in seconds.
Setpoints == {170, 220}
Measurements == {20, 220, 620}

\* A temperature (tenths of a degree) on the grid of the controller.
PidTemp(t) == t * (PidScale \div TempScale)
Dts == {1, 2}

PidFresh ==
    [prev_error |-> 0, integral |-> 0, prev_measurement |-> 0,
     prev_output |-> 0, first_update |-> TRUE]

\* max(lo, min(hi, x))
Clamp(lo, hi, x) == Max(lo, Min(hi, x))

\* pid.py:90-94  the integral after accumulation and clamping
MaxIntegral(k) ==
    IF k # 0 THEN (integral_windup_limit * PidScale) \div Abs(k)
    ELSE KiZeroIntegralLimit * PidScale

\* An accumulation that does not skip the first update.
AccumulateAlways(p, k, error, dt) ==
    Clamp(-MaxIntegral(k), MaxIntegral(k), p.integral + error * dt)

Accumulate(p, k, error, dt) ==
    IF ~p.first_update
    THEN Clamp(-MaxIntegral(k), MaxIntegral(k), p.integral + error * dt)
    ELSE p.integral

\* pid.py:98-102  derivative on measurement
DTerm(p, measurement, dt) ==
    IF ~p.first_update /\ dt > 0
    THEN -kd * ((measurement - p.prev_measurement) \div dt)
    ELSE 0

\* Output limits that forget the upper bound.
ClampOutputLowOnly(raw) == Max(output_min * PidScale, raw)

\* pid.py:107-109  output limits
ClampOutput(raw) ==
    Clamp(output_min * PidScale, output_max * PidScale, raw)

\* pid.py:112-115  whether the rate limit cuts the change of output
RateLimited(p, clamped, dt) ==
    /\ ~p.first_update
    /\ Abs(clamped - p.prev_output) > rate_limit * PidScale * dt

\* A rate limiter that limits rises only (the abs() forgotten).
RateLimitNoAbs(p, clamped, dt) ==
    LET max_change == rate_limit * PidScale * dt
        output_change == clamped - p.prev_output
    IN  IF ~p.first_update /\ output_change > max_change
        THEN p.prev_output + max_change
        ELSE clamped

\* pid.py:111-117  rate limiting against the previous output
RateLimit(p, clamped, dt) ==
    LET max_change == rate_limit * PidScale * dt
        output_change == clamped - p.prev_output
        sign == IF output_change > 0 THEN 1 ELSE -1
    IN  IF RateLimited(p, clamped, dt)
        THEN p.prev_output + max_change * sign
        ELSE clamped

\* A back-calculation that divides by 1 where ki is 0.
BackCalculateKiZeroAsOne(k, integral, raw, clamped) ==
    IF clamped # raw
    THEN integral - ((raw - clamped) \div (IF k # 0 THEN k ELSE 1))
    ELSE integral

\* pid.py:119-124  back-calculation of the integral
BackCalculate(k, integral, raw, clamped) ==
    IF clamped # raw /\ k # 0
    THEN integral - ((raw - clamped) \div k)
    ELSE integral

\* pid.py:77-105  raw_output = p_term + i_term + d_term
RawOutput(p, k, setpoint, measurement, dt) ==
    LET error == PidTemp(measurement - setpoint)
        p_term == kp * error
        i_term == k * Accumulate(p, k, error, dt)
        d_term == DTerm(p, PidTemp(measurement), dt)
    IN  p_term + i_term + d_term

\* pid.py:60-133  update(): the new fields; prev_output is the value returned
PidUpdate(p, k, setpoint, measurement, dt) ==
    LET error == PidTemp(measurement - setpoint)
        meas == PidTemp(measurement)
        integral1 == Accumulate(p, k, error, dt)
        raw_output == RawOutput(p, k, setpoint, measurement, dt)
        clamped_output == RateLimit(p, ClampOutput(raw_output), dt)
    IN  [prev_error |-> error,
         integral |-> BackCalculate(k, integral1, raw_output, clamped_output),
         prev_measurement |-> meas,
         prev_output |-> clamped_output,
         first_update |-> FALSE]

PidInit ==
    /\ ki \in KiSet
    /\ pid = PidFresh
    /\ pid_out = <<>>

\* pid.py:60-133  a call of update() on the controller
PidCall(setpoint, measurement, dt) ==
    /\ pid' = PidUpdate(pid, ki, setpoint, measurement, dt)
    /\ pid_out' = <<pid'.prev_output>>
    /\ ki' = ki

Update(setpoint, measurement, dt) ==
    /\ PidCall(setpoint, measurement, dt)
    /\ op' = <<"pid.update", dt,
              RateLimited(pid,
                  ClampOutput(RawOutput(pid, ki, setpoint, measurement, dt)),
                  dt)>>
    /\ UNCHANGED <<windup, seqVars, unitVars, roomVars, bac, sim>>

\* A reset that keeps the accumulated integral.
PidResetKeepIntegral(p) ==
    [p EXCEPT !.prev_error = 0, !.prev_measurement = 0, !.prev_output = 0,
              !.first_update = TRUE]

\* pid.py:142-146  the fields reset() writes (max_error and update_count,
\* diagnostics that update() never reads, are not kept)
PidReset(p) ==
    [p EXCEPT !.prev_error = 0, !.integral = 0, !.prev_measurement = 0,
              !.prev_output = 0, !.first_update = TRUE]

\* pid.py:135-148  op[3] tells whether the controller had a history
Reset ==
    /\ pid' = PidReset(pid)
    /\ pid_out' = <<>>
    /\ op' = <<"pid.reset", 0, pid.integral # 0>>
    /\ UNCHANGED <<ki, seqVars, unitVars, roomVars, extVars>>

PidNext ==
    \/ \E sp \in Setpoints, m \in Measurements, dt \in Dts : Update(sp, m, dt)
    \/ Reset

(***************************************************************************)
(* sim/crac.py                                                             *)
(***************************************************************************)
\* CRACConfig of every unit (durations on the model's grid, in seconds).
q_rated_kw == 50
min_capacity_pct == 20
max_capacity_pct == 100
startup_time_s == 2
shutdown_time_s == 2
mtbf_s == 5
mttr_s == 3

\* q_cool_kw is stored as q_cool_kw * QDen (availability is 1.0 throughout:
\* nothing in the program writes it).
QDen == 100 * startup_time_s

UnitFresh ==
    [enable |-> FALSE, cmd_pct |-> 0, status |-> "off", q_cool |-> 0,
     transition_timer_s |-> 0, failed |-> FALSE, failure_timer_s |-> 0,
     next_failure_s |-> mtbf_s]

\* A repair that waits for the countdown to go below zero.
UpdateFailureSimulationLate(u, dt) ==
    IF u.failed
    THEN LET t == u.failure_timer_s - dt
         IN  IF t < 0
             THEN [u EXCEPT !.failure_timer_s = t, !.failed = FALSE,
                            !.status = "off", !.next_failure_s = mtbf_s]
             ELSE [u EXCEPT !.failure_timer_s = t]
    ELSE LET n == u.next_failure_s - dt
         IN  IF n <= 0 /\ u.status = "running"
             THEN [u EXCEPT !.next_failure_s = n, !.failed = TRUE,
                            !.status = "failed", !.failure_timer_s = mttr_s]
             ELSE [u EXCEPT !.next_failure_s = n]

\* A repair that is granted as soon as the unit is enabled.
UpdateFailureSimulationEnableRepairs(u, dt) ==
    IF u.failed
    THEN LET t == u.failure_timer_s - dt
         IN  IF t <= 0 \/ u.enable
             THEN [u EXCEPT !.failure_timer_s = t, !.failed = FALSE,
                            !.status = "off", !.next_failure_s = mtbf_s]
             ELSE [u EXCEPT !.failure_timer_s = t]
    ELSE LET n == u.next_failure_s - dt
         IN  IF n <= 0 /\ u.status = "running"
             THEN [u EXCEPT !.next_failure_s = n, !.failed = TRUE,
                            !.status = "failed", !.failure_timer_s = mttr_s]
             ELSE [u EXCEPT !.next_failure_s = n]

\* A repair that clears the failed flag and leaves the status as it is.
UpdateFailureSimulationRepairKeepsStatus(u, dt) ==
    IF u.failed
    THEN LET t == u.failure_timer_s - dt
         IN  IF t <= 0
             THEN [u EXCEPT !.failure_timer_s = t, !.failed = FALSE,
                            !.next_failure_s = mtbf_s]
             ELSE [u EXCEPT !.failure_timer_s = t]
    ELSE LET n == u.next_failure_s - dt
         IN  IF n <= 0 /\ u.status = "running"
             THEN [u EXCEPT !.next_failure_s = n, !.failed = TRUE,
                            !.status = "failed", !.failure_timer_s = mttr_s]
             ELSE [u EXCEPT !.next_failure_s = n]

\* crac.py:127-143
UpdateFailureSimulation(u, dt) ==
    IF u.failed
    THEN LET t == u.failure_timer_s - dt
         IN  IF t <= 0
             THEN [u EXCEPT !.failure_timer_s = t, !.failed = FALSE,
                            !.status = "off", !.next_failure_s = mtbf_s]
             ELSE [u EXCEPT !.failure_timer_s = t]
    ELSE LET n == u.next_failure_s - dt
         IN  IF n <= 0 /\ u.status = "running"
             THEN [u EXCEPT !.next_failure_s = n, !.failed = TRUE,
                            !.status = "failed", !.failure_timer_s = mttr_s]
             ELSE [u EXCEPT !.next_failure_s = n]

\* Status transitions that restart a unit which is enabled while STOPPING.
UpdateStatusTransitionsRestart(u, dt) ==
    IF u.failed THEN [u EXCEPT !.status = "failed"]
    ELSE IF u.enable
    THEN IF u.status \in {"off", "stopping"}
         THEN [u EXCEPT !.status = "starting",
                        !.transition_timer_s = startup_time_s]
         ELSE IF u.status = "starting"
         THEN IF u.transition_timer_s - dt <= 0
              THEN [u EXCEPT !.status = "running", !.transition_timer_s = 0]
              ELSE [u EXCEPT !.transition_timer_s = @ - dt]
         ELSE u
    ELSE IF u.status \in {"running", "starting"}
         THEN [u EXCEPT !.status = "stopping",
                        !.transition_timer_s = shutdown_time_s]
         ELSE IF u.status = "stopping"
         THEN IF u.transition_timer_s - dt <= 0
              THEN [u EXCEPT !.status = "off", !.transition_timer_s = 0]
              ELSE [u EXCEPT !.transition_timer_s = @ - dt]
         ELSE u

\* crac.py:145-169
UpdateStatusTransitions(u, dt) ==
    IF u.failed THEN [u EXCEPT !.status = "failed"]
    ELSE IF u.enable
    THEN IF u.status = "off"
         THEN [u EXCEPT !.status = "starting",
                        !.transition_timer_s = startup_time_s]
         ELSE IF u.status = "starting"
         THEN IF u.transition_timer_s - dt <= 0
              THEN [u EXCEPT !.status = "running", !.transition_timer_s = 0]
              ELSE [u EXCEPT !.transition_timer_s = @ - dt]
         ELSE u
    ELSE IF u.status \in {"running", "starting"}
         THEN [u EXCEPT !.status = "stopping",
                        !.transition_timer_s = shutdown_time_s]
         ELSE IF u.status = "stopping"
         THEN IF u.transition_timer_s - dt <= 0
              THEN [u EXCEPT !.status = "off", !.transition_timer_s = 0]
              ELSE [u EXCEPT !.transition_timer_s = @ - dt]
         ELSE u

\* A cooling law with full output from the first moment of the start-up.
CalculateCoolingOutputNoRamp(u) ==
    IF u.status \in {"running", "starting"}
    THEN [u EXCEPT !.q_cool =
             Clamp(min_capacity_pct, max_capacity_pct, u.cmd_pct)
               * startup_time_s * q_rated_kw]
    ELSE [u EXCEPT !.q_cool = 0]

\* A cooling law that follows commands below the stable minimum.
CalculateCoolingOutputNoMinimum(u) ==
    IF u.status = "running"
    THEN [u EXCEPT !.q_cool =
             Min(max_capacity_pct, u.cmd_pct) * startup_time_s * q_rated_kw]
    ELSE IF u.status = "starting"
    THEN [u EXCEPT !.q_cool =
             u.cmd_pct * (startup_time_s - u.transition_timer_s) * q_rated_kw]
    ELSE [u EXCEPT !.q_cool = 0]

\* A cooling law that leaves the output of a unit that is neither RUNNING
\* nor STARTING as it was.
CalculateCoolingOutputKeep(u) ==
    IF u.status = "running"
    THEN [u EXCEPT !.q_cool =
             Clamp(min_capacity_pct, max_capacity_pct, u.cmd_pct)
               * startup_time_s * q_rated_kw]
    ELSE IF u.status = "starting"
    THEN [u EXCEPT !.q_cool =
             u.cmd_pct * (startup_time_s - u.transition_timer_s) * q_rated_kw]
    ELSE u

\* crac.py:171-191
CalculateCoolingOutput(u) ==
    IF u.status = "running"
    THEN [u EXCEPT !.q_cool =
             Clamp(min_capacity_pct, max_capacity_pct, u.cmd_pct)
               * startup_time_s * q_rated_kw]
    ELSE IF u.status = "starting"
    THEN [u EXCEPT !.q_cool =
             u.cmd_pct * (startup_time_s - u.transition_timer_s) * q_rated_kw]
    ELSE [u EXCEPT !.q_cool = 0]

\* crac.py:93-125  (the power and energy bookkeeping, which nothing reads
\* back, is left out)
UnitStep(u, dt) ==
    CalculateCoolingOutput(
        UpdateStatusTransitions(UpdateFailureSimulation(u, dt), dt))

\* crac.py:206-211  duration 0 stands for None (and for 0): "or mttr_hours"
UnitForceFailure(u, duration_s) ==
    [u EXCEPT !.failed = TRUE, !.status = "failed",
              !.failure_timer_s = IF duration_s # 0 THEN duration_s
                                  ELSE mttr_s]

\* crac.py:213-218
UnitClearFailure(u) ==
    [u EXCEPT !.failed = FALSE, !.failure_timer_s = 0, !.status = "off",
              !.next_failure_s = mtbf_s]

(***************************************************************************)
(* control/sequences.py                                                    *)
(***************************************************************************)
NumUnits == 3
UnitIds == 1 .. NumUnits

\* StagingConfig (temperatures in tenths of a degree, durations in seconds).
temp_error_threshold == 10
staging_hysteresis == 2
destaging_hysteresis == 3
rotation_runtime_s == 1
enable_rotation == TRUE
StagingDelays == {0, 3}
DestagingDelays == {0, 2}

\* Inputs of CRACSequencer.update() and of force_failure().
SeqDts == {1}
SeqSetpoint == 220
SeqMeasurements == {209, 220, 226, 231}
PidOutputs == {120}
FailDurations == {0, 1}

\* The run is cut when total_runtime_hours has reached this many seconds.
MaxTime == 6
MaxCmds == 1

\* sequences.py:73-79
InitialRole(i) == IF i = 1 THEN "lead" ELSE IF i = 2 THEN "lag" ELSE "standby"

\* sequences.py:254-260  the first assignment with the role; 0 stands for None
GetAssignmentByRole(a, role) ==
    IF \E i \in UnitIds : a[i].role = role
    THEN CHOOSE i \in UnitIds :
             /\ a[i].role = role
             /\ \A j \in UnitIds : a[j].role = role => i <= j
    ELSE 0

\* sequences.py:262-265
GetAssignmentsByRole(a, role) == {i \in UnitIds : a[i].role = role}

\* sequences.py:125-135
UpdateTimers(a, us, dt) ==
    [i \in UnitIds |->
        [a[i] EXCEPT
            !.assigned_time = IF us[i].status = "running" THEN @ + dt ELSE @,
            !.staging_timer_s = Max(0, @ - dt),
            !.destaging_timer_s = Max(0, @ - dt)]]

\* sequences.py:162-166 and 272-274: the conditions under which roles swap
SafeToRotate(a, us) ==
    LET lead == GetAssignmentByRole(a, "lead")
        lag == GetAssignmentByRole(a, "lag")
    IN  /\ ~us[lead].failed
        /\ ~us[lag].failed
        /\ us[lead].status # "starting"
        /\ us[lag].status # "starting"

\* A swap that promotes LAG and forgets to demote LEAD.
SwapRolesPromoteOnly(a) ==
    LET lag == GetAssignmentByRole(a, "lag")
    IN  [a EXCEPT ![lag].role = "lead", ![lag].assigned_time = 0]

\* A swap that keeps the runtime counters.
SwapRolesKeepRuntime(a) ==
    LET lead == GetAssignmentByRole(a, "lead")
        lag == GetAssignmentByRole(a, "lag")
    IN  [a EXCEPT ![lead].role = "lag", ![lag].role = "lead"]

\* sequences.py:168-174 and 276-282
SwapRoles(a) ==
    LET lead == GetAssignmentByRole(a, "lead")
        lag == GetAssignmentByRole(a, "lag")
    IN  [a EXCEPT ![lead].role = "lag", ![lead].assigned_time = 0,
                  ![lag].role = "lead", ![lag].assigned_time = 0]

\* sequences.py:150-176
RotationDue(a, us) ==
    LET lead == GetAssignmentByRole(a, "lead")
        lag == GetAssignmentByRole(a, "lag")
    IN  /\ enable_rotation
        /\ lead # 0 /\ lag # 0
        /\ a[lead].assigned_time >= rotation_runtime_s
        /\ SafeToRotate(a, us)

\* sequences.py:190-192
ErrorWithHysteresis(s) ==
    s.temp_error + (IF s.lag_staged THEN staging_hysteresis ELSE 0)

\* A staging condition that forgets the threshold.
ShouldStageAnyError(s) == ~s.lag_staged

\* sequences.py:194-195
ShouldStage(s) ==
    ErrorWithHysteresis(s) >= temp_error_threshold /\ ~s.lag_staged

\* sequences.py:205-208
ShouldDestage(s) ==
    /\ s.lag_staged
    /\ ErrorWithHysteresis(s) < temp_error_threshold - destaging_hysteresis

\* A timer gate that tests for expiry before it restarts the timer.
TimerGateExpiryFirst(timer, delay) ==
    [timer |-> IF timer <= 0 THEN delay ELSE timer, expired |-> timer <= 0]

\* sequences.py:196-201 and 209-215  "start the timer if it is not running",
\* then "act if the timer has expired", on the timer update() has decremented
TimerGate(timer, delay) ==
    LET started == IF timer <= 0 THEN delay ELSE timer
    IN  [timer |-> started, expired |-> started <= 0]

\* sequences.py:188-217  the LAG branch of _process_staging_logic: the new
\* LAG timers, LAG enable and lag_staged
LagStaging(c, a, us, s) ==
    LET lag == GetAssignmentByRole(a, "lag")
        st == TimerGate(a[lag].staging_timer_s, c.staging_delay_s)
        de == TimerGate(a[lag].destaging_timer_s, c.destaging_delay_s)
        same == [asg |-> a, units |-> us, lag_staged |-> s.lag_staged]
    IN  IF lag = 0 \/ us[lag].failed THEN same
        ELSE IF ShouldStage(s)
        THEN [asg |-> [a EXCEPT ![lag].staging_timer_s = st.timer],
              units |-> IF st.expired THEN [us EXCEPT ![lag].enable = TRUE]
                        ELSE us,
              lag_staged |-> st.expired]
        ELSE IF ShouldDestage(s)
        THEN [asg |-> [a EXCEPT ![lag].destaging_timer_s = de.timer],
              units |-> IF de.expired THEN [us EXCEPT ![lag].enable = FALSE]
                        ELSE us,
              lag_staged |-> ~de.expired]
        ELSE same

\* A STANDBY branch that never releases an enabled STANDBY.
StandbyStagingNoRelease(a, us, s) ==
    LET lead == GetAssignmentByRole(a, "lead")
        lag == GetAssignmentByRole(a, "lag")
        avail == {i \in GetAssignmentsByRole(a, "standby") : ~us[i].failed}
        first == CHOOSE i \in avail : \A j \in avail : i <= j
    IN  IF avail # {} /\ (lead = 0 \/ us[lead].failed
                            \/ lag = 0 \/ us[lag].failed)
        THEN [units |-> [us EXCEPT ![first].enable = TRUE],
              standby_staged |-> TRUE]
        ELSE [units |-> us, standby_staged |-> s.standby_staged]

\* A STANDBY branch that waits for LEAD and LAG both to have failed.
StandbyStagingBothFailed(a, us, s) ==
    LET lead == GetAssignmentByRole(a, "lead")
        lag == GetAssignmentByRole(a, "lag")
        standby == GetAssignmentsByRole(a, "standby")
        avail == {i \in standby : ~us[i].failed}
        first == CHOOSE i \in avail : \A j \in avail : i <= j
    IN  IF avail # {} /\ (lead = 0 \/ us[lead].failed)
                      /\ (lag = 0 \/ us[lag].failed)
        THEN [units |-> [us EXCEPT ![first].enable = TRUE],
              standby_staged |-> TRUE]
        ELSE [units |-> [i \in UnitIds |->
                            IF i \in standby
                            THEN [us[i] EXCEPT !.enable = FALSE] ELSE us[i]],
              standby_staged |-> FALSE]

\* sequences.py:219-234  the STANDBY branch: the new enables, standby_staged
StandbyStaging(a, us, s) ==
    LET lead == GetAssignmentByRole(a, "lead")
        lag == GetAssignmentByRole(a, "lag")
        standby == GetAssignmentsByRole(a, "standby")
        lead_failed == lead = 0 \/ us[lead].failed
        lag_failed == lag = 0 \/ us[lag].failed
        avail == {i \in standby : ~us[i].failed}
        first == CHOOSE i \in avail : \A j \in avail : i <= j
    IN  IF standby # {} /\ (lead_failed \/ lag_failed)
        THEN IF avail # {}
             THEN [units |-> [us EXCEPT ![first].enable = TRUE],
                   standby_staged |-> TRUE]
             ELSE [units |-> us, standby_staged |-> s.standby_staged]
        ELSE [units |-> [i \in UnitIds |->
                            IF i \in standby
                            THEN [us[i] EXCEPT !.enable = FALSE] ELSE us[i]],
              standby_staged |-> FALSE]

\* A LEAD branch that enables the first unit of the list, whatever its role.
LeadStagingFirstUnit(a, us) ==
    IF ~us[1].failed THEN [us EXCEPT ![1].enable = TRUE] ELSE us

\* sequences.py:184-186  LEAD is enabled whenever it is not failed
LeadStaging(a, us) ==
    LET lead == GetAssignmentByRole(a, "lead")
    IN  IF lead # 0 /\ ~us[lead].failed
        THEN [us EXCEPT ![lead].enable = TRUE] ELSE us

\* sequences.py:236-252
DistributeCoolingLoad(us, total_output_pct) ==
    LET enabled_units == {i \in UnitIds : us[i].enable /\ ~us[i].failed}
        per_unit_pct == total_output_pct \div Cardinality(enabled_units)
    IN  IF enabled_units = {} THEN us
        ELSE [i \in UnitIds |->
                 [us[i] EXCEPT !.cmd_pct = IF i \in enabled_units
                                           THEN Min(100, per_unit_pct)
                                           ELSE 0]]

(***************************************************************************)
(* History kept beside the program's state, in seconds, for the timing     *)
(* properties of staging.  -1 stands for "not at present" / "never".       *)
(*   hot_s   the error has been >= temp_error_threshold on every update    *)
(*           since the one hot_s seconds ago                               *)
(*   cold_s  likewise, the error < threshold - destaging_hysteresis        *)
(*   due_s   likewise, the error >= threshold with the same assignment     *)
(*           holding LAG, not failed and not staged when update was called *)
(*   since_toggle  seconds since lag_staged last changed                   *)
(*   pid_output_pct  the pid_output_pct argument of the last update        *)
(* Each count stops at a value beyond which nothing compares it.           *)
(***************************************************************************)
ObsFresh ==
    [hot_s |-> -1, cold_s |-> -1, due_s |-> -1, since_toggle |-> -1,
     pid_output_pct |-> 0]

Count(prev, holds, restart, dt, cap) ==
    IF ~holds THEN -1
    ELSE IF prev < 0 \/ restart THEN 0
    ELSE Min(prev + dt, cap)

ObsUpdate(o, c, a2, us, s0, s1, rot, lag_staged, dt, pid_output_pct) ==
    LET lag == GetAssignmentByRole(a2, "lag")
        hot == s1.temp_error >= temp_error_threshold
        cold == s1.temp_error < temp_error_threshold - destaging_hysteresis
        due == hot /\ lag # 0 /\ ~us[lag].failed /\ ~s0.lag_staged
        window == c.staging_delay_s + c.destaging_delay_s
    IN  [hot_s |-> Count(o.hot_s, hot, FALSE, dt, c.staging_delay_s),
         cold_s |-> Count(o.cold_s, cold, FALSE, dt, c.destaging_delay_s),
         due_s |-> Count(o.due_s, due, rot, dt, c.staging_delay_s + 1),
         since_toggle |->
             IF lag_staged # s0.lag_staged THEN 0
             ELSE IF o.since_toggle < 0 THEN -1
             ELSE Min(o.since_toggle + dt, window + 1),
         pid_output_pct |-> pid_output_pct]

SeqInit ==
    /\ cfg \in [staging_delay_s : StagingDelays,
                destaging_delay_s : DestagingDelays]
    /\ units = [i \in UnitIds |-> UnitFresh]
    /\ asg = [i \in UnitIds |->
                 [role |-> InitialRole(i), assigned_time |-> 0,
                  staging_timer_s |-> 0, destaging_timer_s |-> 0]]
    /\ seq = [setpoint_c |-> 220, current_temp_c |-> 220, temp_error |-> 0,
              lag_staged |-> FALSE, standby_staged |-> FALSE,
              total_runtime_s |-> 0, rotation_count |-> 0]
    /\ cmds = 0
    /\ obs = ObsFresh

\* sequences.py:100-148  CRACSequencer.update on units in the state us (the
\* caller may have failed one of them since the last update).  Each
\* intermediate value is bound once (\E x \in {e}) in the order the code
\* computes it.
SeqCallOn(us, dt, setpoint_c, measurement_c, pid_output_pct) ==
    /\ \E s1 \in {[seq EXCEPT !.total_runtime_s = @ + dt,
                              !.setpoint_c = setpoint_c,
                              !.current_temp_c = measurement_c,
                              !.temp_error = Abs(setpoint_c - measurement_c)]} :
       \E a1 \in {UpdateTimers(asg, us, dt)} :
       \E rot \in {RotationDue(a1, us)} :
       \E a2 \in {IF rot THEN SwapRoles(a1) ELSE a1} :
       \E lg \in {LagStaging(cfg, a2, LeadStaging(a2, us), s1)} :
       \E sb \in {StandbyStaging(lg.asg, lg.units, s1)} :
       \E u5 \in {DistributeCoolingLoad(sb.units, pid_output_pct)} :
          /\ asg' = lg.asg
          /\ units' = [i \in UnitIds |-> UnitStep(u5[i], dt)]
          /\ seq' = [s1 EXCEPT !.lag_staged = lg.lag_staged,
                               !.standby_staged = sb.standby_staged,
                               !.rotation_count = IF rot THEN @ + 1 ELSE @]
          /\ obs' = ObsUpdate(obs, cfg, a2, us, seq, s1, rot,
                               lg.lag_staged, dt, pid_output_pct)
          /\ op' = <<"seq.update", dt, rot>>
          /\ UNCHANGED <<cfg, cmds>>

\* update() on the units as they stand
SeqCall(dt, setpoint_c, measurement_c, pid_output_pct) ==
    SeqCallOn(units, dt, setpoint_c, measurement_c, pid_output_pct)

SeqUpdate(dt, setpoint_c, measurement_c, pid_output_pct) ==
    /\ SeqCall(dt, setpoint_c, measurement_c, pid_output_pct)
    /\ UNCHANGED <<pidVars, unitVars, roomVars, extVars>>

\* sequences.py:288-291  get_total_cooling_kw, in the unit of q_cool
RECURSIVE SumCooling(_, _)
SumCooling(us, n) == IF n = 0 THEN 0 ELSE us[n].q_cool + SumCooling(us, n - 1)

GetTotalCoolingKw(us) == SumCooling(us, NumUnits)

\* sequences.py:267-286  CRACSequencer.force_role_rotation
ForceRoleRotation ==
    LET lead == GetAssignmentByRole(asg, "lead")
        lag == GetAssignmentByRole(asg, "lag")
        ok == lead # 0 /\ lag # 0 /\ ~units[lead].failed /\ ~units[lag].failed
    IN  /\ cmds' = cmds + 1
        /\ asg' = IF ok THEN SwapRoles(asg) ELSE asg
        /\ seq' = [seq EXCEPT !.rotation_count = IF ok THEN @ + 1 ELSE @]
        /\ obs' = IF ok THEN [obs EXCEPT !.due_s = -1] ELSE obs
        /\ op' = <<"seq.force_role_rotation", 0, ok>>
        /\ UNCHANGED <<cfg, units, pidVars, unitVars, roomVars, extVars>>

\* crac.py:206-211  CRACUnit.force_failure on the unit at position i
ForceFailure(i, duration_s) ==
    /\ cmds' = cmds + 1
    /\ units' = [units EXCEPT ![i] = UnitForceFailure(@, duration_s)]
    /\ op' = <<"unit.force_failure", 0, FALSE>>
    /\ UNCHANGED <<cfg, asg, seq, obs, pidVars, unitVars, roomVars, extVars>>

\* crac.py:213-218  CRACUnit.clear_failure on the unit at position i
ClearFailure(i) ==
    /\ cmds' = cmds + 1
    /\ units' = [units EXCEPT ![i] = UnitClearFailure(@)]
    /\ op' = <<"unit.clear_failure", 0, FALSE>>
    /\ UNCHANGED <<cfg, asg, seq, obs, pidVars, unitVars, roomVars, extVars>>

\* The operations of a plant: updates until MaxTime seconds have been
\* simulated, and at most MaxCmds external commands among them.
SeqNext ==
    \/ /\ seq.total_runtime_s < MaxTime
       /\ \E dt \in SeqDts, m \in SeqMeasurements, o \in PidOutputs :
              SeqUpdate(dt, SeqSetpoint, m, o)
    \/ cmds < MaxCmds /\ ForceRoleRotation
    \/ cmds < MaxCmds /\ \E i \in UnitIds, d \in FailDurations :
                             ForceFailure(i, d)
    \/ cmds < MaxCmds /\ \E i \in UnitIds : ClearFailure(i)

(***************************************************************************)
(* One CRAC unit driven on its own: its caller writes enable and cmd_pct   *)
(* and calls step(dt), as CRACSequencer.update does for each unit, and     *)
(* force_failure / clear_failure come in between steps.                    *)
(***************************************************************************)
UnitDts == {1, 2}
CmdPcts == {0, 60, 100, 120}
UnitFailDurations == {0, 2, 3}

\* The run of the unit is cut after this many simulated seconds and this
\* many forced failures and repairs.
MaxUnitTime == 8
MaxUnitCmds == 2

(***************************************************************************)
(* History kept beside the unit, in seconds; -1 stands for "none".         *)
(*   t           simulated seconds stepped so far                          *)
(*   cmds        force_failure and clear_failure calls so far              *)
(*   outage_s    the duration D > 0 of a force_failure(D) that hit the     *)
(*               unit while it was OFF with enable false, for as long as   *)
(*               only steps with enable false have followed and the state  *)
(*               after the step that completed D has not been left         *)
(*   outage_elapsed  seconds stepped since that force_failure              *)
(*   ramp_s      seconds stepped since the step that took the unit into    *)
(*               STARTING, while STARTING and at the step that reaches     *)
(*               RUNNING                                                   *)
(*   prev_status the status before the last operation                      *)
(***************************************************************************)
UnitObsFresh ==
    [t |-> 0, cmds |-> 0, outage_s |-> -1, outage_elapsed |-> 0, ramp_s |-> -1,
     prev_status |-> "off"]

UnitObs(o, u0, u1, enable, dt) ==
    LET tracked == o.outage_s >= 0 /\ ~enable
                       /\ o.outage_elapsed < o.outage_s
    IN  [o EXCEPT
            !.t = @ + dt,
            !.prev_status = u0.status,
            !.outage_s = IF tracked THEN @ ELSE -1,
            !.outage_elapsed = IF tracked THEN @ + dt ELSE 0,
            !.ramp_s = IF u0.status # "starting" /\ u1.status = "starting" THEN 0
                       ELSE IF /\ u0.status = "starting" /\ o.ramp_s >= 0
                               /\ u1.status \in {"starting", "running"}
                            THEN @ + dt
                       ELSE -1]

UnitInit ==
    /\ unit = UnitFresh
    /\ uobs = UnitObsFresh

\* sequences.py:184-252 write enable and cmd_pct; crac.py:93-125 step(dt)
Step(enable, cmd_pct, dt) ==
    /\ \E u1 \in {UnitStep([unit EXCEPT !.enable = enable,
                                        !.cmd_pct = cmd_pct], dt)} :
          /\ unit' = u1
          /\ uobs' = UnitObs(uobs, unit, u1, enable, dt)
    /\ op' = <<"unit.step", dt, enable>>
    /\ UNCHANGED <<pidVars, seqVars, roomVars, extVars>>

\* crac.py:206-211  force_failure(duration_hours); 0 stands for None
UForceFailure(duration_s) ==
    /\ unit' = UnitForceFailure(unit, duration_s)
    /\ uobs' = [uobs EXCEPT
                   !.cmds = @ + 1,
                   !.outage_s = IF /\ unit.status = "off" /\ ~unit.enable
                                   /\ duration_s > 0
                                THEN duration_s ELSE -1,
                   !.outage_elapsed = 0,
                   !.ramp_s = -1,
                   !.prev_status = unit.status]
    /\ op' = <<"unit.force_failure", duration_s, FALSE>>
    /\ UNCHANGED <<pidVars, seqVars, roomVars, extVars>>

\* crac.py:213-218  clear_failure()
UClearFailure ==
    /\ unit' = UnitClearFailure(unit)
    /\ uobs' = [uobs EXCEPT !.cmds = @ + 1, !.outage_s = -1,
                            !.outage_elapsed = 0, !.ramp_s = -1,
                            !.prev_status = unit.status]
    /\ op' = <<"unit.clear_failure", 0, FALSE>>
    /\ UNCHANGED <<pidVars, seqVars, roomVars, extVars>>

UnitNext ==
    \/ /\ uobs.t < MaxUnitTime
       /\ \E enable \in BOOLEAN, c \in CmdPcts, dt \in UnitDts :
              Step(enable, c, dt)
    \/ uobs.cmds < MaxUnitCmds /\ \E d \in UnitFailDurations : UForceFailure(d)
    \/ uobs.cmds < MaxUnitCmds /\ UClearFailure

\* No unit driven on its own, for the checks of the other components.
UnitIdle ==
    /\ unit = UnitFresh
    /\ uobs = UnitObsFresh

(***************************************************************************)
(* sim/environment.py                                                      *)
(***************************************************************************)
\* RoomConfig of the room under check, and the guards of Room.__init__.
min_temp_c == 100
max_temp_c == 400

\* RoomConfig of the rooms checked.  Temperatures are in tenths of a degree,
\* powers in watts (the program's kilowatts times PowerScale), conductances
\* in watts per tenth of a degree, the thermal mass in kJ per degree.
PowerScale == 1000
RoomPlants ==
    { [thermal_mass_kj_per_c |-> 1000, ua_kw_per_c |-> 100],
      [thermal_mass_kj_per_c |-> 2500, ua_kw_per_c |-> 25] }
InitialTemps == {50, 220, 240, 450}
AmbientTemps == {50, 220, 450}
ItLoads == {0, 3000}
InfilUas == {0, 100}
RoomConfigs ==
    { [thermal_mass_kj_per_c |-> pl.thermal_mass_kj_per_c,
       ua_kw_per_c |-> pl.ua_kw_per_c, initial_temp_c |-> t0,
       ambient_temp_c |-> ta, it_load_kw |-> q, infil_ua_kw_per_c |-> inf] :
      pl \in RoomPlants, t0 \in InitialTemps, ta \in AmbientTemps,
      q \in ItLoads, inf \in InfilUas }

\* Inputs of step(): dt in seconds, the cooling input in watts.
RoomDts == {1, 2}
CoolingInputs == {0, 2000, 50000}

\* The run of the room is cut after this many simulated seconds.
MaxRoomTime == 5

\* Safety bounds that forget the lower one.
ClampTempHighOnly(t) == Min(max_temp_c, t)

\* environment.py:105-106  safety bounds
ClampTemp(t) == Max(min_temp_c, Min(max_temp_c, t))

\* A heat balance that forgets the ambient temperature.
EnvelopeHeatNoAmbient(r) ==
    (r.cfg.ua_kw_per_c + r.infil_ua_kw_per_c) * r.temp_c

\* environment.py:91-96  q_envelope_kw = ua_total * (temp_c - ambient_temp_c)
EnvelopeHeat(r) ==
    (r.cfg.ua_kw_per_c + r.infil_ua_kw_per_c) * (r.temp_c - r.ambient_temp_c)

\* environment.py:77-114  Room.step (the two energy integrals, which nothing
\* in step reads back, are left out).  q_net_kw, in watts, is the program's
\* q_net_kw * 1000.0; the quotient is taken in tenths of a degree.
RoomStepped(r, dt, q_cool_kw) ==
    LET q_net_kw == r.it_load_kw - q_cool_kw - EnvelopeHeat(r)
        dt_temp_c ==
            ((q_net_kw * (1000 \div PowerScale) * TempScale)
                 \div r.cfg.thermal_mass_kj_per_c) * dt
    IN  [r EXCEPT !.temp_c = ClampTemp(@ + dt_temp_c), !.time_s = @ + dt]

\* environment.py:55-75  Room.__init__
RoomNew(c) ==
    [cfg |-> c, temp_c |-> c.initial_temp_c,
     ambient_temp_c |-> c.ambient_temp_c, it_load_kw |-> c.it_load_kw,
     infil_ua_kw_per_c |-> c.infil_ua_kw_per_c, time_s |-> 0]

RoomInit == \E c \in RoomConfigs : room = RoomNew(c)

\* op[3] tells whether the call was a zero-input call: no cooling, no IT
\* load, and the ambient at the room's temperature
RoomStep(dt, q_cool_kw) ==
    /\ room' = RoomStepped(room, dt, q_cool_kw)
    /\ op' = <<"room.step", dt,
              q_cool_kw = 0 /\ room.it_load_kw = 0
                  /\ room.ambient_temp_c = room.temp_c>>
    /\ UNCHANGED <<pidVars, seqVars, unitVars, extVars>>

RoomNext ==
    /\ room.time_s < MaxRoomTime
    /\ \E dt \in RoomDts, q \in CoolingInputs : RoomStep(dt, q)

\* No room, for the checks of the other components.
RoomIdle == room = <<>>

\* The sequencer and its units untouched, for the checks of the controller.
SeqIdle ==
    /\ cfg = [staging_delay_s |-> 0, destaging_delay_s |-> 0]
    /\ units = <<>>
    /\ asg = <<>>
    /\ seq = <<>>
    /\ cmds = 0
    /\ obs = ObsFresh

\* The controller untouched, for the checks of the sequencer.
PidIdle ==
    /\ ki = 0
    /\ pid = PidFresh
    /\ pid_out = <<>>

(***************************************************************************)
(* interfaces/bacnet.py   A slot of the priority array is <<>> (None) or    *)
(* <<v>>; slot i of the model is priority_array[i - 1] of the program.      *)
(***************************************************************************)
PrioritySlots == 16

\* Arguments of set_command(): priorities inside and outside 1..16, and
\* command percentages.
BacPriorities == {0, 1, 2, 16, 17}
BacCommands == {0, 40, 100}

\* bacnet.py:34-39
BacFresh ==
    [priority_array |-> [i \in 1..PrioritySlots |-> <<>>],
     current_command |-> 0]

\* An effective value taken from the lowest priority that is occupied.
EffectiveValueLowest(pa) ==
    LET occupied == {i \in 1..PrioritySlots : pa[i] # <<>>}
    IN  IF occupied = {} THEN 0
        ELSE pa[CHOOSE i \in occupied : \A j \in occupied : i >= j][1]

\* bacnet.py:83-91  the first slot that is not None, else 0.0
EffectiveValue(pa) ==
    LET occupied == {i \in 1..PrioritySlots : pa[i] # <<>>}
    IN  IF occupied = {} THEN 0
        ELSE pa[CHOOSE i \in occupied : \A j \in occupied : i <= j][1]

\* bacnet.py:70-98  set_command.  The cmd_setter of main.py:91-92 forwards
\* the effective value to sequencer.set_external_command only if the
\* sequencer has such a method; CRACSequencer has none, so the notification
\* of line 96 changes nothing.
BacSetCommand(b, cmd_pct, priority) ==
    LET priority_idx == priority - 1
        pa == [b.priority_array EXCEPT ![priority_idx + 1] = <<cmd_pct>>]
    IN  IF 0 <= priority_idx /\ priority_idx < PrioritySlots
        THEN [priority_array |-> pa, current_command |-> EffectiveValue(pa)]
        ELSE b

BacInit == bac = BacFresh

\* op[3] tells whether the priority was one of 1..16
SetCommand(cmd_pct, priority) ==
    /\ bac' = BacSetCommand(bac, cmd_pct, priority)
    /\ op' = <<"bacnet.set_command", priority,
              priority \in 1..PrioritySlots>>
    /\ UNCHANGED <<pidVars, seqVars, unitVars, roomVars, windup, sim>>

BacNext == \E c \in BacCommands, p \in BacPriorities : SetCommand(c, p)

(***************************************************************************)
(* The saturation experiment on the controller: updates with one constant   *)
(* large positive error, then updates with the measurement at the setpoint. *)
(*   windup.ideal  the integral of a controller with the same gains whose   *)
(*                 output is never limited, hence never back-calculated     *)
(*   windup.n      the updates at zero error so far, counted to SettleBound *)
(***************************************************************************)
WindupSetpoint == 220
WindupMeasurements == {620, 820}
SettleBound == 12

WindupInit ==
    /\ ki \in KiSet
    /\ pid = PidFresh
    /\ pid_out = <<>>
    /\ windup \in [phase : {"saturating"}, measurement : WindupMeasurements,
                   ideal : {0}, n : {0}]

\* pid.py:86-94  the integral of the controller that is never limited
IdealIntegral(w, measurement, dt) ==
    Accumulate([integral |-> w.ideal, first_update |-> pid.first_update],
               ki, PidTemp(measurement - WindupSetpoint), dt)

\* update() with the large error
Saturate(dt) ==
    /\ windup.phase = "saturating"
    /\ PidCall(WindupSetpoint, windup.measurement, dt)
    /\ windup' = [windup EXCEPT
                     !.ideal = IdealIntegral(windup, windup.measurement, dt)]
    /\ op' = <<"pid.update", dt, FALSE>>
    /\ UNCHANGED <<seqVars, unitVars, roomVars, bac, sim>>

\* update() with the error back at zero, once the output has saturated
Settle(dt) ==
    /\ \/ windup.phase = "settled"
       \/ windup.phase = "saturating" /\ pid_out = <<output_max * PidScale>>
    /\ PidCall(WindupSetpoint, WindupSetpoint, dt)
    /\ windup' = [windup EXCEPT
                     !.phase = "settled",
                     !.ideal = IdealIntegral(windup, WindupSetpoint, dt),
                     !.n = Min(@ + 1, SettleBound)]
    /\ op' = <<"pid.update", dt, TRUE>>
    /\ UNCHANGED <<seqVars, unitVars, roomVars, bac, sim>>

WindupNext ==
    \/ \E dt \in Dts : Saturate(dt)
    \/ \E dt \in Dts : Settle(dt)

(***************************************************************************)
(* The simulation loops: run_simulation of main.py, and the                 *)
(* pre-conditioning and execute_scenario of tools/run_scenario.py.  The     *)
(* loops join the components on their grids: the controller reads the room  *)
(* temperature in tenths of a degree, the sequencer receives the output in  *)
(* whole percent (rounded down, the grid of cmd_pct), and the room receives *)
(* the cooling of the units in watts.  The alarm manager and the data       *)
(* collection of the loops, which nothing in the loop reads back, are left  *)
(* out.                                                                     *)
(*   sim.step   iterations of the main or scenario loop so far              *)
(*   sim.ticks  the same, the pre-conditioning iterations included          *)
(***************************************************************************)
setup_steps == 2

\* The run is cut after this many iterations of the loop.
MaxTicks == 6

\* RoomConfig() as it stands: 24 C, ambient 22 C, 2500 kJ/C, UA 0.25 kW/C,
\* 40 kW of IT load.
BaselineRoom ==
    [thermal_mass_kj_per_c |-> 2500, ua_kw_per_c |-> 25,
     initial_temp_c |-> 240, ambient_temp_c |-> 220, it_load_kw |-> 40000,
     infil_ua_kw_per_c |-> 0]

\* The rooms, load profiles, failure events and initial temperatures of the
\* runs checked.  <<>> stands for "none".
LoopRooms ==
    {BaselineRoom,
     [thermal_mass_kj_per_c |-> 1000, ua_kw_per_c |-> 100,
      initial_temp_c |-> 240, ambient_temp_c |-> 220, it_load_kw |-> 3000,
      infil_ua_kw_per_c |-> 0]}
LoadProfiles ==
    {<<>>, <<[start_time_s |-> 1, end_time_s |-> 3,
              start_load_kw |-> 3000, end_load_kw |-> 5000]>>}
FailureEvents ==
    {<<>>, <<[failure_time_s |-> 1, duration_s |-> 2,
              target_unit |-> "lead"]>>}
ScenarioInitialTemps == {220, 240}

\* A controller output in whole percent, rounded down.
Pct(x) == x \div PidScale

\* main.py:142-144  the feedforward term, on the grid of the controller
FeedForward(r) ==
    Clamp(5 * PidScale, 95 * PidScale,
          (r.it_load_kw * 100 * PidScale)
              \div (NumUnits * q_rated_kw * PowerScale))

\* main.py:155-156  total_output
MainOutput(pid_output, feedforward_output) ==
    Pct(Clamp(0, 100 * PidScale, pid_output + feedforward_output))

\* The cooling of the units (the unit of q_cool) in watts.
CoolingWatts(q) == (q * PowerScale) \div QDen

\* A loop that hands the room the cooling the units had before the update.
TotalCoolingStale(before, after) == GetTotalCoolingKw(before)

\* main.py:162, run_scenario.py:173  get_total_cooling_kw() is called after
\* sequencer.update() has returned
TotalCooling(before, after) == GetTotalCoolingKw(after)

\* run_scenario.py:238-256  _apply_load_profile writes room.cfg.it_load_kw
ApplyLoadProfile(r, load_profile, sim_time) ==
    IF load_profile = <<>> THEN r
    ELSE LET lp == load_profile[1]
         IN  IF lp.start_time_s <= sim_time /\ sim_time <= lp.end_time_s
             THEN [r EXCEPT !.cfg.it_load_kw =
                      lp.start_load_kw
                        + ((sim_time - lp.start_time_s)
                             * (lp.end_load_kw - lp.start_load_kw))
                            \div (lp.end_time_s - lp.start_time_s)]
             ELSE IF sim_time > lp.end_time_s
             THEN [r EXCEPT !.cfg.it_load_kw = lp.end_load_kw]
             ELSE r

\* run_scenario.py:258-275  _apply_failure_events: force_failure on the
\* first assignment that holds the target role, at the time of the event
ApplyFailureEvents(us, a, failure_events, sim_time) ==
    IF failure_events = <<>> THEN us
    ELSE LET ev == failure_events[1]
             hit == {i \in UnitIds : a[i].role = ev.target_unit}
             first == CHOOSE i \in hit : \A j \in hit : i <= j
         IN  IF sim_time = ev.failure_time_s /\ hit # {}
             THEN [us EXCEPT ![first] = UnitForceFailure(@, ev.duration_s)]
             ELSE us

\* main.py:152-165, run_scenario.py:117-120 and 170-174  one iteration:
\* pid.update, sequencer.update (which steps every unit), room.step
LoopBody(us0, r0, with_feedforward) ==
    /\ PidCall(sim.setpoint_c, room.temp_c, sim.timestep_s)
    /\ SeqCallOn(us0, sim.timestep_s, sim.setpoint_c, room.temp_c,
                 IF with_feedforward
                 THEN MainOutput(pid'.prev_output, sim.feedforward_output)
                 ELSE Pct(pid'.prev_output))
    /\ room' = RoomStepped(r0, sim.timestep_s,
                           CoolingWatts(TotalCooling(us0, units')))
    /\ UNCHANGED <<unitVars, windup, bac>>

\* main.py:55-103, 117-144 and run_scenario.py:68-110
LoopInit ==
    /\ ki \in KiSet
    /\ pid = PidFresh
    /\ pid_out = <<>>
    /\ SeqInit
    /\ \E c \in LoopRooms :
          \/ /\ room = RoomNew(c)
             /\ sim = [kind |-> "main", setpoint_c |-> SeqSetpoint,
                       timestep_s |-> 1, step |-> 0, ticks |-> 0,
                       feedforward_output |-> FeedForward(RoomNew(c)),
                       load_profile |-> <<>>, failure_events |-> <<>>]
          \/ \E t0 \in ScenarioInitialTemps, lp \in LoadProfiles,
                ev \in FailureEvents :
                /\ room = [RoomNew(c) EXCEPT !.temp_c = t0]
                /\ sim = [kind |-> "scenario", setpoint_c |-> SeqSetpoint,
                          timestep_s |-> 1, step |-> 0, ticks |-> 0,
                          feedforward_output |-> 0,
                          load_profile |-> lp, failure_events |-> ev]

\* main.py:148-165  an iteration of run_simulation
TickMain ==
    /\ sim.kind = "main" /\ sim.step < MaxTicks
    /\ LoopBody(units, room, TRUE)
    /\ sim' = [sim EXCEPT !.step = @ + 1, !.ticks = @ + 1]

\* run_scenario.py:116-122  an iteration of the pre-conditioning
Precondition ==
    /\ sim.kind = "scenario" /\ sim.ticks < setup_steps
    /\ LoopBody(units, room, FALSE)
    /\ sim' = [sim EXCEPT !.ticks = @ + 1]

\* The units the sequencer update of the next scenario iteration starts from.
UnitsAfterEvents ==
    ApplyFailureEvents(units, asg, sim.failure_events,
                       sim.step * sim.timestep_s)

\* run_scenario.py:161-178  an iteration of execute_scenario
TickScenario ==
    /\ sim.kind = "scenario" /\ sim.ticks >= setup_steps
    /\ sim.step < MaxTicks
    /\ LoopBody(UnitsAfterEvents,
                ApplyLoadProfile(room, sim.load_profile,
                                 sim.step * sim.timestep_s),
                FALSE)
    /\ sim' = [sim EXCEPT !.step = @ + 1, !.ticks = @ + 1]

LoopNext == TickMain \/ Precondition \/ TickScenario

\* No saturation experiment, no BACnet shim and no simulation loop.
ExtIdle == windup = <<>> /\ bac = <<>> /\ sim = <<>>

InitPID == op = <<"init", 0, FALSE>> /\ PidInit /\ SeqIdle /\ UnitIdle /\ RoomIdle /\ ExtIdle
SpecPID == InitPID /\ [][PidNext]_vars

InitWindup ==
    /\ op = <<"init", 0, FALSE>> /\ WindupInit
    /\ SeqIdle /\ UnitIdle /\ RoomIdle /\ bac = <<>> /\ sim = <<>>
SpecWindup == InitWindup /\ [][WindupNext]_vars

InitBac ==
    /\ op = <<"init", 0, FALSE>> /\ BacInit
    /\ PidIdle /\ SeqIdle /\ UnitIdle /\ RoomIdle
    /\ windup = <<>> /\ sim = <<>>
SpecBac == InitBac /\ [][BacNext]_vars

InitLoop ==
    /\ op = <<"init", 0, FALSE>> /\ LoopInit
    /\ UnitIdle /\ windup = <<>> /\ bac = <<>>
SpecLoop == InitLoop /\ [][LoopNext]_vars

InitSeq == op = <<"init", 0, FALSE>> /\ SeqInit /\ PidIdle /\ UnitIdle /\ RoomIdle /\ ExtIdle
SpecSeq == InitSeq /\ [][SeqNext]_vars

\* A plant whose controller asks for full output on every update: the
\* sequencer is called with pid_output_pct = output_max.
FullNext ==
    /\ seq.total_runtime_s < MaxTime
    /\ \E dt \in SeqDts, m \in SeqMeasurements :
           SeqUpdate(dt, SeqSetpoint, m, output_max)

SpecSeqFull == InitSeq /\ [][FullNext]_vars

InitUnit == op = <<"init", 0, FALSE>> /\ UnitInit /\ PidIdle /\ SeqIdle /\ RoomIdle /\ ExtIdle
SpecUnit == InitUnit /\ [][UnitNext]_vars

\* The unit driven on its own without an end of the run.  The history of
\* the unit is not kept (but for the count of commands), and the countdown to
\* the next failure, which the code only compares with 0 at every step, is
\* held at -MaxUnitTime once it has fallen that far, so that the states of
\* the unit are finitely many.
LiveStep(enable, cmd_pct, dt) ==
    /\ \E u1 \in {UnitStep([unit EXCEPT !.enable = enable,
                                        !.cmd_pct = cmd_pct], dt)} :
          unit' = [u1 EXCEPT !.next_failure_s = Max(@, -MaxUnitTime)]
    /\ op' = <<"unit.step", dt, enable>>
    /\ UNCHANGED <<uobs, pidVars, seqVars, roomVars, extVars>>

\* CRACSequencer.update steps every unit on each call (sequences.py:146-148)
\* and the loops call it on every iteration: a step is eventually taken.
LiveStepAny ==
    \E enable \in BOOLEAN, c \in CmdPcts, dt \in UnitDts :
        LiveStep(enable, c, dt)

UnitLiveNext ==
    \/ LiveStepAny
    \/ uobs.cmds < MaxUnitCmds /\ \E d \in UnitFailDurations : UForceFailure(d)
    \/ uobs.cmds < MaxUnitCmds /\ UClearFailure

SpecUnitLive == InitUnit /\ [][UnitLiveNext]_vars /\ WF_vars(LiveStepAny)

InitRoom == op = <<"init", 0, FALSE>> /\ RoomInit /\ PidIdle /\ SeqIdle /\ UnitIdle /\ ExtIdle
SpecRoom == InitRoom /\ [][RoomNext]_vars

OutLo == output_min * PidScale
OutHi == output_max * PidScale

\* C1: every value update() returns lies within [output_min, output_max],
\* whatever the inputs and however reset() is interleaved.
C1_OutputBounds ==
    pid_out # <<>> => (OutLo <= pid_out[1] /\ pid_out[1] <= OutHi)

\* An update, not the first since a reset, returned the upper bound.
C1_Witness ==
    /\ op[1] = "pid.update"
    /\ pid_out = <<OutHi>>
    /\ pid.integral # 0

\* C2: between two consecutive update() calls with no reset() in between,
\* the returned output changes by at most rate_limit * dt of the second call.
C2_RateLimit ==
    [][(op'[1] = "pid.update" /\ pid_out # <<>>)
         => Abs(pid_out'[1] - pid_out[1]) <= rate_limit * PidScale * op'[2]]_vars

\* A second update with dt = 1 whose output the rate limit cut.
C2_Witness ==
    /\ op = <<"pid.update", 1, TRUE>>
    /\ pid_out # <<>>

Lead == GetAssignmentByRole(asg, "lead")
Lag == GetAssignmentByRole(asg, "lag")
Standbys == GetAssignmentsByRole(asg, "standby")
RoleCount(a, r) == Cardinality({i \in UnitIds : a[i].role = r})
IsSeqUpdate == op[1] = "seq.update"

\* C3: in every reachable state exactly one assignment holds LEAD, at most
\* one holds LAG, and there are as many assignments of each role as at
\* construction.
C3_Roles ==
    /\ RoleCount(asg, "lead") = 1
    /\ RoleCount(asg, "lag") <= 1
    /\ \A r \in {"lead", "lag", "standby"} :
          RoleCount(asg, r) = Cardinality({i \in UnitIds : InitialRole(i) = r})

\* The roles have been swapped and a unit has since failed.
C3_Witness ==
    /\ seq.rotation_count >= 1
    /\ asg[2].role = "lead"
    /\ \E i \in UnitIds : units[i].failed

\* C4: after every update, the unit holding LEAD is enabled if it was not
\* failed when update was called (nothing fails between the call and the
\* staging decision).
C4_LeadEnabled ==
    [][op'[1] = "seq.update"
         => \A i \in UnitIds :
               (asg'[i].role = "lead" /\ ~units[i].failed) => units'[i].enable]_vars

\* An update rotated the roles and enabled the new LEAD, which is starting
\* while the error is zero.
C4_Witness ==
    /\ op = <<"seq.update", 1, TRUE>>
    /\ seq.temp_error = 0
    /\ asg[2].role = "lead"
    /\ units[2].enable /\ units[2].status = "starting"

\* C5: with staging_delay_s > 0, once the error has been at or above the
\* threshold on every update for more than staging_delay_s seconds, the
\* same LAG being healthy and not staged meanwhile, LAG is staged and enabled.
C5_StagesAfterDelay ==
    (cfg.staging_delay_s > 0 /\ obs.due_s > cfg.staging_delay_s)
        => (seq.lag_staged /\ units[Lag].enable)

\* The last update began staging: it started the staging countdown of the
\* LAG assignment, or staged LAG.
BeganStaging ==
    /\ IsSeqUpdate
    /\ \/ cfg.staging_delay_s > 0
          /\ asg[Lag].staging_timer_s = cfg.staging_delay_s
       \/ obs.since_toggle = 0 /\ seq.lag_staged

\* C6 as claimed: staging begins only on an update whose error exceeds
\* temp_error_threshold + staging_hysteresis.
C6_BeginsAboveHysteresis ==
    BeganStaging => seq.temp_error > temp_error_threshold + staging_hysteresis

\* C6 as amended: staging begins only on an update whose error is at least
\* temp_error_threshold.
C6_BeginsAtThreshold ==
    BeganStaging => seq.temp_error >= temp_error_threshold

\* Staging began on an error between the threshold and threshold + hysteresis.
C6_Witness ==
    /\ BeganStaging
    /\ seq.temp_error >= temp_error_threshold
    /\ seq.temp_error <= temp_error_threshold + staging_hysteresis

\* C7: lag_staged turns true only on an update at which the error has been
\* at or above the threshold for at least staging_delay_s seconds, and turns
\* false only when it has been below threshold - destaging_hysteresis for at
\* least destaging_delay_s seconds.
C7_AntiShortCycle ==
    /\ (obs.since_toggle = 0 /\ seq.lag_staged)
          => obs.hot_s >= cfg.staging_delay_s
    /\ (obs.since_toggle = 0 /\ ~seq.lag_staged)
          => obs.cold_s >= cfg.destaging_delay_s

\* A new excursion has just begun while the countdown of an earlier one is
\* still running, and LAG is not staged.
C7_Witness ==
    /\ IsSeqUpdate
    /\ cfg.staging_delay_s > 0
    /\ obs.hot_s = 0
    /\ asg[Lag].staging_timer_s > 0
    /\ asg[Lag].staging_timer_s < cfg.staging_delay_s
    /\ ~seq.lag_staged

\* C8: lag_staged changes only if it has never changed before or last changed
\* at least staging_delay_s + destaging_delay_s seconds earlier.
C8_AntiChatter ==
    [][(op'[1] = "seq.update" /\ seq'.lag_staged # seq.lag_staged)
         => \/ obs.since_toggle = -1
            \/ obs.since_toggle + op'[2]
                 >= cfg.staging_delay_s + cfg.destaging_delay_s]_vars

\* LAG was staged less than a window ago, the error has since fallen below
\* the threshold, and lag_staged has not changed again.
C8_Witness ==
    /\ IsSeqUpdate
    /\ cfg.destaging_delay_s > 0
    /\ seq.lag_staged
    /\ obs.since_toggle > 0
    /\ obs.since_toggle < cfg.staging_delay_s + cfg.destaging_delay_s
    /\ obs.cold_s >= 0

\* C9: after every update a STANDBY unit is enabled only if LEAD or LAG was
\* failed when update was called; if neither was, every STANDBY is disabled
\* and standby_staged is false.
C9_StandbyOnlyOnFailure ==
    [][op'[1] = "seq.update"
         => LET lead == GetAssignmentByRole(asg', "lead")
                lag == GetAssignmentByRole(asg', "lag")
                needed == units[lead].failed \/ units[lag].failed
            IN  /\ \A i \in GetAssignmentsByRole(asg', "standby") :
                      units'[i].enable => needed
                /\ ~needed => ~seq'.standby_staged]_vars

\* LEAD and LAG are healthy again and the update released a STANDBY that had
\* been started.
C9_Witness ==
    /\ IsSeqUpdate
    /\ ~units[Lead].failed /\ ~units[Lag].failed
    /\ ~seq.standby_staged
    /\ \E i \in Standbys : ~units[i].enable /\ units[i].status = "stopping"

FailoverCase ==
    LET lead == GetAssignmentByRole(asg', "lead")
        lag == GetAssignmentByRole(asg', "lag")
    IN  /\ op'[1] = "seq.update"
        /\ units[lead].failed \/ units[lag].failed
        /\ \E i \in GetAssignmentsByRole(asg', "standby") : ~units[i].failed

RolesMoved ==
    \/ \E i \in UnitIds : asg'[i].role # asg[i].role
    \/ seq'.rotation_count # seq.rotation_count

\* C12: a rotation, automatic or forced, is one step: right after it the
\* assignment that held LAG holds LEAD with runtime 0, the one that held
\* LEAD holds LAG with runtime 0, rotation_count has grown by exactly 1,
\* the STANDBY assignments are as the step would have left them without a
\* rotation, and exactly one assignment holds LEAD.
C12_RotationAtomic ==
    [][RolesMoved
         => LET lead == GetAssignmentByRole(asg, "lead")
                lag == GetAssignmentByRole(asg, "lag")
            IN  /\ asg'[lag].role = "lead" /\ asg'[lag].assigned_time = 0
                /\ asg'[lead].role = "lag" /\ asg'[lead].assigned_time = 0
                /\ seq'.rotation_count = seq.rotation_count + 1
                /\ \A i \in GetAssignmentsByRole(asg, "standby") :
                      asg'[i] = IF op'[1] = "seq.update"
                                THEN UpdateTimers(asg, units, op'[2])[i]
                                ELSE asg[i]
                /\ RoleCount(asg', "lead") = 1]_vars

\* A forced rotation has followed an automatic one: the first unit holds
\* LEAD again, with no runtime.
C12_Witness ==
    /\ op = <<"seq.force_role_rotation", 0, TRUE>>
    /\ seq.rotation_count = 2
    /\ asg[1].role = "lead" /\ asg[1].assigned_time = 0
    /\ asg[2].role = "lag" /\ asg[2].assigned_time = 0

\* C13: roles are swapped, by update or by force_role_rotation, only in a
\* state where neither the LEAD unit nor the LAG unit is failed or STARTING.
C13_SwapOnlyWhenSafe ==
    [][(\E i \in UnitIds : asg'[i].role # asg[i].role)
         => LET lead == GetAssignmentByRole(asg, "lead")
                lag == GetAssignmentByRole(asg, "lag")
            IN  /\ ~units[lead].failed /\ ~units[lag].failed
                /\ units[lead].status # "starting"
                /\ units[lag].status # "starting"]_vars

\* The units that were enabled and not failed when the last update
\* distributed the load: step() writes neither enable nor cmd_pct, and a
\* unit's failed flag at the distribution is the one it had at the call.
EnabledAtDistribution ==
    {i \in UnitIds : units'[i].enable /\ ~units[i].failed}

\* C14: after every update, each unit that was enabled and not failed has
\* cmd_pct = pid_output_pct / enabledCount, capped at 100, and every other
\* unit has cmd_pct = 0, also when no unit at all is enabled.
C14_EqualShare ==
    [][op'[1] = "seq.update"
         => \A i \in UnitIds :
               units'[i].cmd_pct =
                   IF i \in EnabledAtDistribution
                   THEN Min(100, obs'.pid_output_pct
                                    \div Cardinality(EnabledAtDistribution))
                   ELSE 0]_vars

\* C15: in every state reached through step, force_failure and
\* clear_failure, q_cool_kw is 0 unless the status is RUNNING or STARTING.
C15_NoCoolingUnlessActive ==
    unit.status \notin {"running", "starting"} => unit.q_cool = 0

\* C16: a step of a failed unit, whatever enable and cmd_pct are, leaves it
\* FAILED with zero cooling while the repair countdown has not expired, and
\* repairs it when it has.
C16_FailedOverridesEnable ==
    [][(op'[1] = "unit.step" /\ unit.failed)
         => IF unit.failure_timer_s - op'[2] > 0
            THEN unit'.failed /\ unit'.status = "failed" /\ unit'.q_cool = 0
            ELSE ~unit'.failed]_vars

\* A failed unit has been stepped with enable true and a full command, and
\* is still failed.
C16_Witness ==
    /\ op[1] = "unit.step"
    /\ unit.enable /\ unit.cmd_pct = 100
    /\ unit.failed /\ unit.status = "failed"
    /\ unit.failure_timer_s > 0

\* q_rated_kw * availability, in the unit of q_cool
RatedOutput == q_rated_kw * QDen

\* A step of a healthy unit with enable true and cmd_pct 100.
FullCommandStep ==
    /\ op'[1] = "unit.step"
    /\ unit'.enable /\ unit'.cmd_pct = 100
    /\ ~unit.failed

\* C17: a healthy unit enabled from OFF with cmd_pct held at 100 delivers
\* less than the rated output on its first step and on every step spent in
\* STARTING, strictly more on each of them than on the step before, and
\* exactly the rated output on its first RUNNING step, which comes at least
\* startup_time_s seconds after the step that entered STARTING.
C17_StartupRamp ==
    [][/\ (FullCommandStep /\ unit.status = "off")
            => unit'.status = "starting" /\ unit'.q_cool < RatedOutput
       /\ (FullCommandStep /\ unit.status = "starting" /\ unit.cmd_pct = 100)
            => IF unit'.status = "starting"
               THEN /\ unit'.q_cool > unit.q_cool
                    /\ unit'.q_cool < RatedOutput
                    /\ uobs'.ramp_s < startup_time_s
               ELSE /\ unit'.status = "running"
                    /\ unit'.q_cool = RatedOutput
                    /\ uobs'.ramp_s >= startup_time_s]_vars

\* The unit has reached RUNNING at full command by two one-second steps in
\* STARTING.
C17_Witness ==
    /\ op = <<"unit.step", 1, TRUE>>
    /\ unit.status = "running" /\ unit.cmd_pct = 100
    /\ unit.q_cool = RatedOutput
    /\ uobs.ramp_s = startup_time_s

\* C18: whenever the status is RUNNING after a step,
\* q_cool_kw = q_rated_kw * clamp(cmd_pct, min, max) / 100 * availability.
C18_RunningOutput ==
    (op[1] = "unit.step" /\ unit.status = "running")
        => unit.q_cool * 100
             = RatedOutput
                 * Clamp(min_capacity_pct, max_capacity_pct, unit.cmd_pct)

\* A RUNNING unit commanded 0 % delivers min_capacity_pct of the rated output.
C18_Witness ==
    /\ op[1] = "unit.step"
    /\ unit.status = "running" /\ unit.cmd_pct = 0
    /\ unit.q_cool * 100 = RatedOutput * min_capacity_pct
    /\ unit.q_cool > 0

\* C19: after every Room.step, whatever dt, the cooling input, the IT load,
\* the conductances and the temperature before, the room temperature lies
\* in [10, 40] degrees.
C19_TempInBand ==
    op[1] = "room.step"
        => (min_temp_c <= room.temp_c /\ room.temp_c <= max_temp_c)

\* A step held the room at the lower bound against an ambient of 45 degrees.
C19_Witness ==
    /\ op[1] = "room.step"
    /\ room.temp_c = min_temp_c
    /\ room.ambient_temp_c > max_temp_c

\* C20 as claimed: a zero-input step (no cooling, no IT load, ambient at the
\* room's temperature) leaves the temperature unchanged, whatever the
\* temperature it starts from.
C20_ZeroInputFixed ==
    [][(op'[1] = "room.step" /\ op'[3]) => room'.temp_c = room.temp_c]_vars

\* C20 as amended: a zero-input step leaves the temperature unchanged when
\* the temperature it starts from lies in [10, 40] degrees.
C20_ZeroInputFixedInBand ==
    [][(/\ op'[1] = "room.step" /\ op'[3]
        /\ min_temp_c <= room.temp_c /\ room.temp_c <= max_temp_c)
         => room'.temp_c = room.temp_c]_vars

\* A zero-input step of two seconds, not the first step of the room, with
\* an infiltration conductance, has left the room at 22 degrees.
C20_Witness ==
    /\ op = <<"room.step", 2, TRUE>>
    /\ room.time_s > 2
    /\ room.infil_ua_kw_per_c > 0
    /\ room.temp_c = 220 /\ room.ambient_temp_c = 220

\* C23: reset() after any history leaves the fields of a freshly constructed
\* controller and the configuration as it was, so that every later update
\* returns what a fresh controller with that configuration returns.
C23_ResetIsFresh ==
    [][op'[1] = "pid.reset"
         => /\ pid' = PidFresh
            /\ ki' = ki
            /\ \A sp \in Setpoints, m \in Measurements, dt \in Dts :
                  PidUpdate(pid', ki', sp, m, dt)
                      = PidUpdate(PidFresh, ki, sp, m, dt)]_vars

\* A controller with a non-zero integral has been reset.
C23_Witness ==
    /\ op = <<"pid.reset", 0, TRUE>>
    /\ ki # 0
    /\ pid.integral = 0 /\ pid.first_update

\* C30: with ki # 0 the stored integral lies within
\* +/-(integral_windup_limit / |ki|) after every update, so that
\* |ki * integral| never exceeds integral_windup_limit.
C30_IntegralBounded ==
    (ki # 0 /\ op[1] = "pid.update")
        => /\ Abs(pid.integral) <= MaxIntegral(ki)
           /\ Abs(ki * pid.integral) <= integral_windup_limit * PidScale

\* C22: after updates with a constant large positive error that saturate the
\* output, and then SettleBound updates with the error at zero, the output is
\* no higher than the output ki * integral of a controller with the same
\* gains that never saturated.
C22_FallsBack ==
    (windup # <<>> /\ windup.phase = "settled" /\ windup.n >= SettleBound)
        => pid_out[1] <= ki * windup.ideal

\* A unit has been stepped by the update: the countdown that applies to it
\* has gone down by dt.
SteppedByUpdate(i) ==
    IF units[i].failed
    THEN units'[i].failure_timer_s = units[i].failure_timer_s - op'[2]
    ELSE units'[i].next_failure_s = units[i].next_failure_s - op'[2]

\* C24: an update during which no unit is enabled and healthy (all failed,
\* or none enabled) completes: every unit is stepped, and
\* get_total_cooling_kw() returns 0 after it.
C24_AllFailedCompletes ==
    [][(op'[1] = "seq.update" /\ EnabledAtDistribution = {})
         => /\ \A i \in UnitIds : SteppedByUpdate(i)
            /\ GetTotalCoolingKw(units') = 0]_vars

\* An update has run with all three units failed: each repair countdown has
\* been stepped below the value a failure gives it.
C24_Witness ==
    /\ IsSeqUpdate
    /\ \A i \in UnitIds :
          /\ units[i].failed /\ units[i].status = "failed"
          /\ units[i].failure_timer_s > 0 /\ units[i].failure_timer_s < mttr_s
    /\ GetTotalCoolingKw(units) = 0

\* C27: with destaging_delay_s > 0, once the error has been below
\* temp_error_threshold - destaging_hysteresis on every update for
\* destaging_delay_s seconds, no unit having failed and no external command
\* having been given, LAG is no longer staged.
C27_DestagesAfterDelay ==
    (/\ IsSeqUpdate /\ cmds = 0
     /\ \A i \in UnitIds : ~units[i].failed
     /\ cfg.destaging_delay_s > 0
     /\ obs.cold_s >= cfg.destaging_delay_s)
        => ~seq.lag_staged

\* The status changes the claim allows across one step.
ClaimedEdges ==
    {<<"off", "starting">>, <<"starting", "running">>,
     <<"running", "stopping">>, <<"stopping", "off">>, <<"failed", "off">>}
        \cup {<<s, "failed">> :
                 s \in {"off", "starting", "running", "stopping"}}

\* C28 as claimed: across a step the status stays the same or follows one of
\* OFF->STARTING, STARTING->RUNNING, RUNNING->STOPPING, STOPPING->OFF,
\* any->FAILED, FAILED->OFF.
C28_ClaimedEdgesOnly ==
    [][op'[1] = "unit.step"
         => (unit'.status = unit.status
               \/ <<unit.status, unit'.status>> \in ClaimedEdges)]_vars

\* C28 as amended: across a step the status stays the same or follows one of
\* the claimed edges, STARTING->STOPPING (enable withdrawn during the
\* start-up) or FAILED->STARTING (repair completed with enable true); it is
\* never MAINTENANCE.
C28_Edges ==
    [][op'[1] = "unit.step"
         => /\ \/ unit'.status = unit.status
               \/ <<unit.status, unit'.status>>
                     \in ClaimedEdges \cup {<<"starting", "stopping">>,
                                            <<"failed", "starting">>}
            /\ unit'.status # "maintenance"]_vars

\* A step has taken a STARTING unit to STOPPING.
C28_Witness ==
    /\ op = <<"unit.step", 1, FALSE>>
    /\ uobs.prev_status = "starting"
    /\ unit.status = "stopping"

\* C29: a step of a unit that is OFF, STARTING or STOPPING leaves the
\* countdown to the next failure unchanged.
C29_CountsRunningOnly ==
    [][(op'[1] = "unit.step" /\ ~unit.failed
          /\ unit.status \in {"off", "starting", "stopping"})
         => unit'.next_failure_s = unit.next_failure_s]_vars

\* The occupied slots of the priority array.
Occupied(b) == {i \in 1..PrioritySlots : b.priority_array[i] # <<>>}

\* C25: after a write with a priority in 1..16 the effective command is the
\* value in the occupied slot of the lowest number; a write with a priority
\* outside 1..16 changes neither the array nor the effective command.
C25_HighestPriorityWins ==
    [][op'[1] = "bacnet.set_command"
         => IF op'[3]
            THEN /\ op'[2] \in Occupied(bac')
                 /\ \E i \in Occupied(bac') :
                       /\ \A j \in Occupied(bac') : i <= j
                       /\ bac'.current_command = bac'.priority_array[i][1]
            ELSE bac' = bac]_vars

\* The last write went to priority 16 while priority 2 held another value:
\* the effective command is the value at priority 2.
C25_Witness ==
    /\ op = <<"bacnet.set_command", 16, TRUE>>
    /\ bac.priority_array[1] = <<>>
    /\ bac.priority_array[2] = <<40>>
    /\ bac.priority_array[16] = <<100>>
    /\ bac.current_command = 40

\* The units as the sequencer update of the iteration found them.
UnitsAtUpdate ==
    IF sim.kind = "scenario" /\ sim.ticks >= setup_steps
    THEN UnitsAfterEvents ELSE units

\* C21: in every iteration of a loop the controller and the sequencer read
\* the room temperature the previous iteration left, every unit is stepped
\* by the sequencer update, and the room integrates the total cooling of the
\* units as that update left them.
C21_TickOrder ==
    [][(sim # <<>> /\ sim'.ticks = sim.ticks + 1)
         => /\ pid'.prev_measurement = PidTemp(room.temp_c)
            /\ seq'.current_temp_c = room.temp_c
            /\ \A i \in UnitIds :
                  IF UnitsAtUpdate[i].failed
                  THEN units'[i].failure_timer_s
                         = UnitsAtUpdate[i].failure_timer_s - sim.timestep_s
                  ELSE units'[i].next_failure_s
                         = UnitsAtUpdate[i].next_failure_s - sim.timestep_s
            /\ room'.temp_c
                 = RoomStepped(room, sim.timestep_s,
                               CoolingWatts(GetTotalCoolingKw(units'))).temp_c
            /\ room'.time_s = room.time_s + sim.timestep_s]_vars

\* After two iterations or more the units deliver cooling and the room has
\* moved away from the temperature the sequencer read.
C21_Witness ==
    /\ sim # <<>> /\ sim.ticks >= 2
    /\ IsSeqUpdate
    /\ GetTotalCoolingKw(units) > 0
    /\ seq.current_temp_c # room.temp_c
    /\ room.temp_c < max_temp_c

\* The samples of a 30 minute run at dt = 1 s.
BaselineSamples == 1800

\* C26: in the baseline run of main.py the mean of the BaselineSamples room
\* temperatures is within 0.5 C of the setpoint and their standard
\* deviation is at most 0.3 C.  A sample T above setpoint + 0.5 C lies at
\* least T - (setpoint + 0.5) above the mean, so the two together require
\* (T - (setpoint + 0.5))^2 <= 0.3^2 * (BaselineSamples - 1) of every sample.
C26_BaselineSamples ==
    (/\ sim # <<>> /\ sim.kind = "main" /\ room.cfg = BaselineRoom
     /\ sim.ticks >= 1
     /\ room.temp_c > sim.setpoint_c + 5)
        => (room.temp_c - (sim.setpoint_c + 5))
               * (room.temp_c - (sim.setpoint_c + 5))
             <= 3 * 3 * (BaselineSamples - 1)

\* C31: the first update after construction or reset() returns
\* kp * (measurement - setpoint) clamped to [output_min, output_max], whatever
\* dt is: error * dt is not added to the integral (the stored integral moves
\* only by the back-calculation of a clamped output), there is no derivative
\* term and no rate limit.
C31_FirstUpdate ==
    [][(op'[1] = "pid.update" /\ pid.first_update)
         => LET p_term == kp * pid'.prev_error
            IN  /\ pid_out' = <<ClampOutput(p_term)>>
                /\ ~op'[3]
                /\ pid'.integral
                     = IF ki # 0 THEN -((p_term - pid_out'[1]) \div ki) ELSE 0
                /\ ~pid'.first_update]_vars

\* An update with dt = 2 and an error of 40 degrees has returned kp * error,
\* 80 % from a previous output of 0, with nothing in the integral.  (A later
\* update cannot end here: it would have to start from an integral of
\* -error * dt, which no update leaves behind an output of 60 % or more.)
C31_Witness ==
    /\ op = <<"pid.update", 2, FALSE>>
    /\ ki # 0
    /\ pid.prev_error = PidTemp(400)
    /\ pid.prev_measurement = PidTemp(620)
    /\ pid_out = <<kp * PidTemp(400)>>
    /\ pid.integral = 0

\* C32: with ki = 0 every update completes: the integral it leaves is the
\* accumulated one, limited to +/-1000 and untouched by the back-calculation,
\* also when the output is clamped or rate-limited, and the output lies
\* within [output_min, output_max].
C32_KiZero ==
    [][(op'[1] = "pid.update" /\ ki = 0)
         => /\ pid'.integral
                 = IF pid.first_update THEN pid.integral
                   ELSE Clamp(-KiZeroIntegralLimit * PidScale,
                              KiZeroIntegralLimit * PidScale,
                              pid.integral + pid'.prev_error * op'[2])
            /\ Abs(pid'.integral) <= KiZeroIntegralLimit * PidScale
            /\ pid_out' = <<pid'.prev_output>>
            /\ OutLo <= pid_out'[1] /\ pid_out'[1] <= OutHi]_vars

\* With ki = 0 the integral stands at its limit of 1000 after an update whose
\* output the rate limit cut.
C32_Witness ==
    /\ op = <<"pid.update", 1, TRUE>>
    /\ ki = 0
    /\ pid.integral = KiZeroIntegralLimit * PidScale
    /\ pid_out # <<>> /\ pid_out[1] < OutHi

\* The time and the ramp of the scenario iteration that comes next.
NextSimTime == sim.step * sim.timestep_s

\* C33: in a scenario iteration at or after the start of the ramp, the IT load
\* of the heat balance of that iteration's Room.step (room.it_load_kw, which
\* step reads and leaves as it is) is the load of the ramp at that time.
C33_RampReachesStep ==
    [][(/\ sim # <<>> /\ sim.kind = "scenario" /\ sim.load_profile # <<>>
        /\ sim'.step = sim.step + 1
        /\ NextSimTime >= sim.load_profile[1].start_time_s)
         => room'.it_load_kw
              = ApplyLoadProfile(room, sim.load_profile,
                                 NextSimTime).cfg.it_load_kw]_vars

\* C34: a unit that is enabled and not failed, in OFF, STARTING or STOPPING,
\* reaches RUNNING, unless it fails, a step withdraws enable or
\* clear_failure() resets it first.
C34_StartsEventually ==
    (/\ op[1] = "unit.step" /\ unit.enable /\ ~unit.failed
     /\ unit.status \in {"off", "starting", "stopping"})
        ~> (\/ unit.status = "running" \/ unit.failed \/ ~unit.enable
            \/ op[1] # "unit.step")

\* C35: after every update, no external command having been given, a unit
\* that holds LAG and is not failed has enable equal to lag_staged.
C35_LagEnableIsStaged ==
    (IsSeqUpdate /\ cmds = 0 /\ Lag # 0 /\ ~units[Lag].failed)
        => (units[Lag].enable <=> seq.lag_staged)

\* The units that were not failed when the update was called, hence when it
\* decided the enables (step(), which may fail or repair a unit, comes last).
HealthyAtUpdate == {i \in UnitIds : ~units[i].failed}

\* C36: after every update called with some unit not failed, some unit that
\* was not failed has enable = true.
C36_SomeHealthyEnabled ==
    [][(op'[1] = "seq.update" /\ HealthyAtUpdate # {})
         => \E i \in HealthyAtUpdate : units'[i].enable]_vars

\* C37: an update starts the staging countdown of LAG, or stages LAG, only
\* if the measurement is above the setpoint by at least
\* temp_error_threshold.
C37_StagesOnlyWhenWarm ==
    BeganStaging
        => seq.current_temp_c - seq.setpoint_c >= temp_error_threshold

\* The units that share the load: enabled and not failed.
Sharing == {i \in UnitIds : units[i].enable /\ ~units[i].failed}

\* C38: at PID output 100 % the total cooling with LEAD and LAG enabled and
\* both RUNNING is greater than the total with LEAD alone enabled and
\* RUNNING, which is the rated output of one unit.
C38_StagingAddsCapacity ==
    (IsSeqUpdate /\ obs.pid_output_pct = output_max)
        => /\ (Sharing = {Lead} /\ units[Lead].status = "running")
                 => GetTotalCoolingKw(units) = RatedOutput
           /\ (/\ Sharing = {Lead, Lag}
               /\ units[Lead].status = "running"
               /\ units[Lag].status = "running")
                 => GetTotalCoolingKw(units) > RatedOutput

\* C39: in every state reached through step, force_failure and
\* clear_failure the failed flag is true exactly when the status is FAILED.
C39_FailedIffStatus ==
    unit.failed <=> unit.status = "failed"

\* A step has failed a RUNNING unit whose countdown to the next failure ran
\* out, no failure having been forced or cleared.
C39_Witness ==
    /\ op[1] = "unit.step"
    /\ uobs.cmds = 0
    /\ uobs.prev_status = "running"
    /\ unit.failed /\ unit.status = "failed"
    /\ unit.failure_timer_s = mttr_s

====
